---- MODULE Spec2Model ----
(***************************************************************************)
(* The order store of app/orders.py: the module-level dict `orders`, the   *)
(* pydantic models that validate what enters it, and the five request      *)
(* handlers of the /orders router.                                         *)
(*                                                                         *)
(* Python values are encoded as follows.                                   *)
(*   Optional[T]   a sequence of length <= 1: None is <<>>, v is <<v>>     *)
(*   str           a TLA+ string; min_length=1 is "differs from the        *)
(*                 empty string"                                           *)
(*   datetime      stored timestamps are naive (datetime.utcnow()) and are *)
(*                 the clock reading, an integer; a datetime parsed from a *)
(*                 query string is [t, aware], aware when the text carried *)
(*                 a UTC offset                                            *)
(*   Dict[K, V]    a sequence of [key, val] entries in insertion order     *)
(*   a JSON body   [fields_set, vals]: the fields the client sent and the  *)
(*                 value of every field (None for a field not sent)        *)
(***************************************************************************)
EXTENDS Integers, Sequences, FiniteSets, TLC

VARIABLES orders, now, req, resp, threads

vars == <<orders, now, req, resp, threads>>

-----------------------------------------------------------------------------
(* Bounds of the model *)

\* create_order is disabled once the store holds this many orders
MaxOrders == 2
\* the clock reads 1..MaxTime
MaxTime == 2
\* the largest store the listing specification starts from
MaxListed == 3
\* the worker threads that serve requests at the same time
MaxThreads == 2

-----------------------------------------------------------------------------
(* Values *)

None == <<>>
Some(v) == <<v>>
IsNone(x) == Len(x) = 0
Val(x) == x[1]

\* one identifier more than the store can hold: some identifier is always absent
UUIDs == 1..(MaxOrders + 1)
Times == 1..MaxTime

PENDING == "PENDING"
FULFILLED == "FULFILLED"
CANCELLED == "CANCELLED"
OrderStatus == {PENDING, FULFILLED, CANCELLED}

BaseFields == {"customer_name", "item", "quantity"}
CreateFields == BaseFields \cup {"notes"}
UpdateFields == CreateFields \cup {"status"}
OrderFields == UpdateFields \cup {"id", "created_at", "updated_at"}

\* a parsed request body: unset fields hold their default, None
MkBody(F, v) == [fields_set |-> F, vals |-> [f \in DOMAIN v |-> IF f \in F THEN v[f] ELSE None]]

-----------------------------------------------------------------------------
(* The dict `orders` *)

Keys(d) == {d[i].key : i \in DOMAIN d}
Has(d, k) == \E i \in DOMAIN d : d[i].key = k
\* a lookup that falls back to the first entry
Get_or_first(d, k) ==
    IF Has(d, k) THEN Some(d[CHOOSE i \in DOMAIN d : d[i].key = k].val)
    ELSE IF Len(d) > 0 THEN Some(d[1].val) ELSE None

\* d.get(k): the value, or None
Get(d, k) == IF Has(d, k) THEN Some(d[CHOOSE i \in DOMAIN d : d[i].key = k].val) ELSE None
\* orders[k].status = v.status: the stored object is changed in place, a field
\* of it only
Put_status_only(d, k, v) ==
    IF Has(d, k)
    THEN [i \in DOMAIN d |->
            IF d[i].key = k THEN [key |-> k, val |-> [d[i].val EXCEPT !.status = v.status]] ELSE d[i]]
    ELSE Append(d, [key |-> k, val |-> v])

\* orders = {k: v}: rebinds the dict to the one entry
Put_rebinding(d, k, v) == <<[key |-> k, val |-> v]>>

\* an existing key is written at the first slot, whichever entry holds the key
Put_at_first(d, k, v) ==
    IF Has(d, k)
    THEN [i \in DOMAIN d |-> IF i = 1 THEN [key |-> d[i].key, val |-> v] ELSE d[i]]
    ELSE Append(d, [key |-> k, val |-> v])

\* d[k] = v: replaces the value in place, or appends a new entry
Put(d, k, v) ==
    IF Has(d, k)
    THEN [i \in DOMAIN d |-> IF d[i].key = k THEN [key |-> k, val |-> v] ELSE d[i]]
    ELSE Append(d, [key |-> k, val |-> v])
\* list(d.values())
Values(d) == [i \in DOMAIN d |-> d[i].val]

-----------------------------------------------------------------------------
(* The pydantic models *)

\* str = Field(..., min_length=1)
ValidStr(x) == ~IsNone(x) /\ Val(x) # ""
\* ge=0 in place of gt=0
ValidQuantity_ge0(x) == ~IsNone(x) /\ Val(x) >= 0

\* int = Field(..., gt=0)
ValidQuantity(x) == ~IsNone(x) /\ Val(x) > 0
\* Optional[str] = Field(None, min_length=1)
ValidOptStr(x) == IsNone(x) \/ Val(x) # ""
\* Optional[int] = Field(None, gt=0)
ValidOptQuantity(x) == IsNone(x) \/ Val(x) > 0

\* OrderCreate(**body) validates
OrderCreateValid(b) ==
    /\ BaseFields \subseteq b.fields_set
    /\ ValidStr(b.vals.customer_name)
    /\ ValidStr(b.vals.item)
    /\ ValidQuantity(b.vals.quantity)

\* OrderUpdate(**body) validates
OrderUpdateValid(b) ==
    /\ ValidOptStr(b.vals.customer_name)
    /\ ValidOptStr(b.vals.item)
    /\ ValidOptQuantity(b.vals.quantity)
    /\ (IsNone(b.vals.status) \/ Val(b.vals.status) \in OrderStatus)

\* Order(**data) validates
OrderValid(data) ==
    /\ {"id", "created_at", "updated_at"} \cup BaseFields \subseteq DOMAIN data
    /\ ~IsNone(data.id) /\ ~IsNone(data.created_at) /\ ~IsNone(data.updated_at)
    /\ ValidStr(data.customer_name)
    /\ ValidStr(data.item)
    /\ ValidQuantity(data.quantity)
    /\ ("status" \in DOMAIN data => ~IsNone(data.status) /\ Val(data.status) \in OrderStatus)

\* Order(**data), for data that validates
Order(data) ==
    [id |-> Val(data.id),
     customer_name |-> Val(data.customer_name),
     item |-> Val(data.item),
     quantity |-> Val(data.quantity),
     status |-> IF "status" \in DOMAIN data THEN Val(data.status) ELSE PENDING,
     notes |-> IF "notes" \in DOMAIN data THEN data.notes ELSE None,
     created_at |-> Val(data.created_at),
     updated_at |-> Val(data.updated_at)]

\* order.model_dump()
model_dump(o) ==
    [f \in OrderFields |-> IF f = "notes" THEN o.notes ELSE Some(o[f])]

\* body.model_dump(): every field of the request model
body_dump(b) == b.vals

\* exclude_unset forgotten: every field of the request model, sent or not
body_dump_set_all(b) == b.vals

\* exclude_none in place of exclude_unset: only the fields that are not None
body_dump_set_not_none(b) == [f \in {g \in DOMAIN b.vals : ~IsNone(b.vals[g])} |-> b.vals[f]]

\* body.model_dump(exclude_unset=True): only the fields the client sent
body_dump_set(b) == [f \in b.fields_set |-> b.vals[f]]

\* a copy rebuilt from the required fields only: notes fall back to None
model_copy_required_only(o, u) ==
    [f \in DOMAIN o |-> IF f \in DOMAIN u THEN u[f] ELSE IF f = "notes" THEN None ELSE o[f]]

\* order.model_copy(update=u): no validation
model_copy(o, u) == [f \in DOMAIN o |-> IF f \in DOMAIN u THEN u[f] ELSE o[f]]

\* a merge under which a CANCELLED status is final
Merge_keeping_cancelled(d, u) ==
    [f \in DOMAIN d \cup DOMAIN u |->
        IF f \notin DOMAIN u THEN d[f]
        ELSE IF f = "status" /\ f \in DOMAIN d /\ d[f] = Some(CANCELLED) THEN d[f]
        ELSE u[f]]

\* a merge that stamps created_at along with updated_at
Merge_restamping(d, u) ==
    [f \in DOMAIN d \cup DOMAIN u |->
        IF f \in DOMAIN u THEN u[f]
        ELSE IF f = "created_at" /\ "updated_at" \in DOMAIN u THEN u.updated_at
        ELSE d[f]]

\* dict merge: the entries of u over those of d
Merge(d, u) == [f \in DOMAIN d \cup DOMAIN u |-> IF f \in DOMAIN u THEN u[f] ELSE d[f]]

-----------------------------------------------------------------------------
(* The environment: the clock and the identifier generator *)

\* a clock whose readings may go back
utcnow_unordered == 1..MaxTime

\* datetime.utcnow(): a reading not before the previous one
utcnow == now..MaxTime

\* an identifier generator that hands out the same identifier again
uuid4_repeating(d) == {1}

\* uuid4(): an identifier no earlier call returned. Orders are never removed,
\* so the identifiers returned so far are the keys of d; the code compares
\* identifiers for equality only, so which unused one is returned makes no
\* difference and the model takes the least
uuid4(d) == {CHOOSE u \in UUIDs \ Keys(d) : \A v \in UUIDs \ Keys(d) : u <= v}

-----------------------------------------------------------------------------
(* Requests and responses as the client sees them *)

NoBody == MkBody({}, [f \in {} |-> None])

Request(op, id, body, filter) ==
    [op |-> op, id |-> id, body |-> body, filter |-> filter]

NoFilter == [status |-> None, created_from |-> None, created_to |-> None]

Response(code, order, list, report) ==
    [code |-> code, order |-> order, list |-> list, report |-> report]

NoReport == [total |-> 0, statuses |-> [s \in {} |-> 0]]

OrderResponse(code, o) == Response(code, Some(o), <<>>, NoReport)
ErrorResponse(code) == Response(code, None, <<>>, NoReport)

-----------------------------------------------------------------------------
(* Worker threads.  The handlers are plain `def` functions, which the       *)
(* framework runs on a pool of threads; a thread's frame holds its request  *)
(* and the handler's locals.                                                *)

Threads == 1..MaxThreads

IdleThread ==
    [pc |-> "idle", op |-> "none", id |-> 0, body |-> NoBody,
     existing |-> None, updated_order |-> None, result |-> <<>>, code |-> 0]

NoThreads == threads = [p \in Threads |-> IdleThread]

-----------------------------------------------------------------------------
(* _filter_orders and the report *)

\* sorted(..., reverse=True) is stable: x goes behind every element whose key
\* is not smaller
RECURSIVE insert_desc(_, _)
insert_desc(x, s) ==
    IF Len(s) = 0 THEN <<x>>
    ELSE IF Head(s).created_at >= x.created_at
         THEN <<Head(s)>> \o insert_desc(x, Tail(s))
         ELSE <<x>> \o s

RECURSIVE sorted_desc(_)
sorted_desc(s) ==
    IF Len(s) = 0 THEN <<>>
    ELSE insert_desc(s[Len(s)], sorted_desc(SubSeq(s, 1, Len(s) - 1)))

\* Comparing a naive datetime with an offset-aware one raises TypeError; a
\* comprehension over an empty list compares nothing
Raises(result, bound) == ~IsNone(bound) /\ Val(bound).aware /\ Len(result) > 0

by_status(result, status) ==
    IF ~IsNone(status) THEN SelectSeq(result, LAMBDA o : o.status = Val(status)) ELSE result

by_created_from(result, created_from) ==
    IF ~IsNone(created_from)
    THEN SelectSeq(result, LAMBDA o : o.created_at >= Val(created_from).t)
    ELSE result

by_created_to(result, created_to) ==
    IF ~IsNone(created_to)
    THEN SelectSeq(result, LAMBDA o : o.created_at <= Val(created_to).t)
    ELSE result

\* [raised, value]: the exception flag and the returned list
_filter_orders(d, status, created_from, created_to) ==
    LET r0 == Values(d)
        r1 == by_status(r0, status)
    IN  IF Raises(r1, created_from) THEN [raised |-> TRUE, value |-> <<>>]
        ELSE LET r2 == by_created_from(r1, created_from)
             IN  IF Raises(r2, created_to) THEN [raised |-> TRUE, value |-> <<>>]
                 ELSE [raised |-> FALSE, value |-> sorted_desc(by_created_to(r2, created_to))]

\* dict(Counter(order.status for order in filtered_orders))
Counter(filtered) ==
    [s \in {filtered[i].status : i \in DOMAIN filtered} |->
        Cardinality({i \in DOMAIN filtered : filtered[i].status = s})]

\* OrderReport(total=len(filtered_orders), statuses=dict(counts))
OrderReport(filtered) == [total |-> Len(filtered), statuses |-> Counter(filtered)]

-----------------------------------------------------------------------------
(* The handlers. A body or query that fails the handler's parameter models  *)
(* is answered 422 before the handler runs; an exception that escapes the   *)
(* handler other than HTTPException is answered 500.                        *)

\* POST /orders
create_order(order_input) ==
    /\ UNCHANGED threads
    /\ req' = Request("create", 0, order_input, NoFilter)
    /\ IF ~OrderCreateValid(order_input)
       THEN /\ resp' = ErrorResponse(422)
            /\ UNCHANGED <<orders, now>>
       ELSE /\ Len(orders) < MaxOrders
            /\ \E t \in utcnow, id \in uuid4(orders) :
                 LET data == Merge(body_dump(order_input),
                                   [id |-> Some(id), created_at |-> Some(t), updated_at |-> Some(t)])
                 IN  /\ now' = t
                     /\ IF OrderValid(data)
                        THEN /\ orders' = Put(orders, Order(data).id, Order(data))
                             /\ resp' = OrderResponse(201, Order(data))
                        ELSE /\ orders' = orders
                             /\ resp' = ErrorResponse(500)

\* PUT /orders/{order_id}
update_order(order_id, updates) ==
    /\ UNCHANGED threads
    /\ req' = Request("update", order_id, updates, NoFilter)
    /\ IF ~OrderUpdateValid(updates)
       THEN /\ resp' = ErrorResponse(422)
            /\ UNCHANGED <<orders, now>>
       ELSE LET existing == Get(orders, order_id)
            IN  IF IsNone(existing)
                THEN /\ resp' = ErrorResponse(404)
                     /\ UNCHANGED <<orders, now>>
                ELSE \E t \in utcnow :
                       LET data == Merge(Merge(model_dump(Val(existing)), body_dump_set(updates)),
                                         [updated_at |-> Some(t)])
                       IN  /\ now' = t
                           /\ IF OrderValid(data)
                              THEN /\ orders' = Put(orders, order_id, Order(data))
                                   /\ resp' = OrderResponse(200, Order(data))
                              ELSE /\ orders' = orders
                                   /\ resp' = ErrorResponse(500)

\* cancel_order without its early return for an order already CANCELLED
cancel_order_rewriting(order_id) ==
    /\ UNCHANGED threads
    /\ req' = Request("cancel", order_id, NoBody, NoFilter)
    /\ LET existing == Get(orders, order_id)
       IN  IF IsNone(existing)
           THEN /\ resp' = ErrorResponse(404)
                /\ UNCHANGED <<orders, now>>
           ELSE \E t \in utcnow :
                  LET updated_order == model_copy(Val(existing),
                                                  [status |-> CANCELLED, updated_at |-> t])
                  IN  /\ now' = t
                      /\ orders' = Put(orders, order_id, updated_order)
                      /\ resp' = OrderResponse(200, updated_order)

\* POST /orders/{order_id}/cancel
cancel_order(order_id) ==
    /\ UNCHANGED threads
    /\ req' = Request("cancel", order_id, NoBody, NoFilter)
    /\ LET existing == Get(orders, order_id)
       IN  IF IsNone(existing)
           THEN /\ resp' = ErrorResponse(404)
                /\ UNCHANGED <<orders, now>>
           ELSE IF Val(existing).status = CANCELLED
                THEN /\ resp' = OrderResponse(200, Val(existing))
                     /\ UNCHANGED <<orders, now>>
                ELSE \E t \in utcnow :
                       LET updated_order == model_copy(Val(existing),
                                                       [status |-> CANCELLED, updated_at |-> t])
                       IN  /\ now' = t
                           /\ orders' = Put(orders, order_id, updated_order)
                           /\ resp' = OrderResponse(200, updated_order)

\* GET /orders
list_orders(status, created_from, created_to) ==
    /\ UNCHANGED threads
    /\ req' = Request("list", 0, NoBody,
                      [status |-> status, created_from |-> created_from, created_to |-> created_to])
    /\ LET r == _filter_orders(orders, status, created_from, created_to)
       IN  resp' = IF r.raised THEN ErrorResponse(500)
                   ELSE Response(200, None, r.value, NoReport)
    /\ UNCHANGED <<orders, now>>

\* GET /orders/report
orders_report(status, created_from, created_to) ==
    /\ UNCHANGED threads
    /\ req' = Request("report", 0, NoBody,
                      [status |-> status, created_from |-> created_from, created_to |-> created_to])
    /\ LET r == _filter_orders(orders, status, created_from, created_to)
       IN  resp' = IF r.raised THEN ErrorResponse(500)
                   ELSE Response(200, None, <<>>, OrderReport(r.value))
    /\ UNCHANGED <<orders, now>>

-----------------------------------------------------------------------------
(* The service from process start, driven by a sample of requests *)

CreateBody(F, n, i, q, nt) ==
    MkBody(F, [customer_name |-> n, item |-> i, quantity |-> q, notes |-> nt])

UpdateBody(F, n, i, q, nt, st) ==
    MkBody(F, [customer_name |-> n, item |-> i, quantity |-> q, notes |-> nt, status |-> st])

SampleCreates ==
    { CreateBody(BaseFields, Some("a"), Some("x"), Some(1), None),
      CreateBody(BaseFields, Some("a"), Some("x"), Some(0), None) }

SampleUpdates ==
    { UpdateBody({"quantity"}, None, None, Some(2), None, None),
      UpdateBody({"status"}, None, None, None, None, Some(FULFILLED)),
      UpdateBody({"status"}, None, None, None, None, Some(CANCELLED)),
      UpdateBody({"quantity"}, None, None, Some(0), None, None),
      UpdateBody({"customer_name"}, None, None, None, None, None) }

Naive(t) == Some([t |-> t, aware |-> FALSE])
Aware(t) == Some([t |-> t, aware |-> TRUE])

SampleFilters == { NoFilter }

Init ==
    /\ orders = <<>>
    /\ now = 1
    /\ req = Request("none", 0, NoBody, NoFilter)
    /\ resp = ErrorResponse(0)
    /\ NoThreads

Next ==
    \/ \E b \in SampleCreates : create_order(b)
    \/ \E id \in UUIDs, b \in SampleUpdates : update_order(id, b)
    \/ \E id \in UUIDs : cancel_order(id)
    \/ \E f \in SampleFilters : list_orders(f.status, f.created_from, f.created_to)
    \/ \E f \in SampleFilters : orders_report(f.status, f.created_from, f.created_to)

Spec == Init /\ [][Next]_vars

-----------------------------------------------------------------------------
(* One request with any body or query, on a store the service can hold.    *)
(* Every order below is one create_order stores at created_at and          *)
(* update_order rewrites at updated_at; insertion order is creation order,  *)
(* so created_at does not decrease along the dict.                          *)

NameChoices == {None, Some(""), Some("a"), Some("b")}
ItemChoices == {None, Some(""), Some("x"), Some("y")}
QuantityChoices == {None, Some(-1), Some(0), Some(1), Some(2)}
NotesChoices == {None, Some(""), Some("n")}
StatusChoices == {None} \cup {Some(s) : s \in OrderStatus}

AllCreates ==
    { CreateBody(F, n, i, q, nt) :
        F \in SUBSET CreateFields, n \in NameChoices, i \in {None, Some(""), Some("x")},
        q \in QuantityChoices, nt \in NotesChoices }

AllUpdates ==
    { UpdateBody(F, n, i, q, nt, st) :
        F \in SUBSET UpdateFields, n \in NameChoices, i \in ItemChoices,
        q \in QuantityChoices, nt \in NotesChoices, st \in StatusChoices }

DateChoices == {None, Aware(1)} \cup {Naive(t) : t \in Times}

AllFilters ==
    [status : StatusChoices, created_from : DateChoices, created_to : DateChoices]

StoredOrder(id, nt, st, c, u) ==
    [id |-> id, customer_name |-> "a", item |-> "x", quantity |-> 1,
     status |-> st, notes |-> nt, created_at |-> c, updated_at |-> u]

Entry(o) == [key |-> o.id, val |-> o]

NoRequest ==
    /\ req = Request("none", 0, NoBody, NoFilter)
    /\ resp = ErrorResponse(0)
    /\ NoThreads

\* the empty store, or one order under either of two identifiers
InitCreate ==
    /\ NoRequest
    /\ now \in Times
    /\ \E c \in 1..now, u \in 1..now, st \in OrderStatus :
         /\ c <= u
         /\ orders \in { <<>> } \cup { <<Entry(StoredOrder(id, None, st, c, u))>> : id \in 1..2 }

NextCreate ==
    /\ req.op = "none"
    /\ \E b \in AllCreates : create_order(b)

SpecCreate == InitCreate /\ [][NextCreate]_vars

\* one order of any status, with and without notes, under identifier 1
InitWrite ==
    /\ NoRequest
    /\ now \in Times
    /\ \E u \in 1..now, st \in OrderStatus, nt \in {None, Some("n")} :
         orders = <<Entry(StoredOrder(1, nt, st, 1, u))>>

NextWrite ==
    /\ req.op = "none"
    /\ \/ \E id \in UUIDs, b \in AllUpdates : update_order(id, b)
       \/ \E id \in UUIDs : cancel_order(id)

SpecWrite == InitWrite /\ [][NextWrite]_vars

\* the i-th of the listed orders: identifier i, status st[i], created at c[i]
ListedStore(k, st, c) == [i \in 1..k |-> Entry(StoredOrder(i, None, st[i], c[i], c[i]))]

InitList ==
    /\ NoRequest
    /\ \E k \in 0..MaxListed :
         \E st \in [1..k -> OrderStatus], c \in [1..k -> Times] :
           /\ \A i \in 1..k, j \in 1..k : i <= j => c[i] <= c[j]
           /\ orders = ListedStore(k, st, c)
           /\ now = IF k = 0 THEN 1 ELSE c[k]

NextList ==
    /\ req.op = "none"
    /\ \/ \E f \in AllFilters : list_orders(f.status, f.created_from, f.created_to)
       \/ \E f \in AllFilters : orders_report(f.status, f.created_from, f.created_to)

SpecList == InitList /\ [][NextList]_vars

-----------------------------------------------------------------------------
(* The claims. What a claim calls valid, present or stored is stated here   *)
(* on the request and the dict themselves, not through the operators of the *)
(* model above.                                                             *)

Present(d, k) == \E i \in DOMAIN d : d[i].key = k
Record(d, k) == d[CHOOSE i \in DOMAIN d : d[i].key = k].val
Sent(b, f) == f \in b.fields_set
IsNull(x) == x = <<>>

\* customer_name, item and quantity sent, non-empty, quantity positive
ValidCreateInput(b) ==
    /\ Sent(b, "customer_name") /\ ~IsNull(b.vals.customer_name) /\ b.vals.customer_name[1] # ""
    /\ Sent(b, "item") /\ ~IsNull(b.vals.item) /\ b.vals.item[1] # ""
    /\ Sent(b, "quantity") /\ ~IsNull(b.vals.quantity) /\ b.vals.quantity[1] > 0

\* C1: a create with a valid input answers 201 with an order that is PENDING,
\* has created_at = updated_at, carries the input's fields and an id no stored
\* order has; the store gains exactly that record, as a new last entry.
C1_CreateStoresFreshPendingOrder ==
    [][ (req'.op = "create" /\ ValidCreateInput(req'.body)) =>
          /\ resp'.code = 201
          /\ Len(resp'.order) = 1
          /\ LET o == resp'.order[1]
                 b == req'.body
             IN  /\ o.status = "PENDING"
                 /\ o.created_at = o.updated_at
                 /\ \A i \in DOMAIN orders : orders[i].key # o.id /\ orders[i].val.id # o.id
                 /\ orders' = Append(orders, [key |-> o.id, val |-> o])
                 /\ o.customer_name = b.vals.customer_name[1]
                 /\ o.item = b.vals.item[1]
                 /\ o.quantity = b.vals.quantity[1]
                 /\ o.notes = (IF Sent(b, "notes") THEN b.vals.notes ELSE <<>>)
      ]_vars

\* a valid create has answered 201 on a store that already held an order
C1_Witness ==
    /\ req.op = "create" /\ resp.code = 201
    /\ Len(orders) = 2
    /\ resp.order[1] = orders[2].val

\* C6: a create whose input violates a field constraint answers 422 and
\* leaves the store as it was.
C6_InvalidCreateStoresNothing ==
    [][ (req'.op = "create" /\ ~ValidCreateInput(req'.body)) =>
          /\ resp'.code = 422
          /\ orders' = orders
      ]_vars

\* a create with quantity 0 has been refused on a store holding an order
C6_Witness ==
    /\ req.op = "create" /\ resp.code = 422
    /\ Sent(req.body, "quantity") /\ req.body.vals.quantity = <<0>>
    /\ Sent(req.body, "customer_name") /\ req.body.vals.customer_name = <<"a">>
    /\ Sent(req.body, "item") /\ req.body.vals.item = <<"x">>
    /\ Len(orders) = 1

\* C2: a cancel on an order that is already CANCELLED answers 200 with the
\* stored record and changes nothing, updated_at included; so a second cancel
\* right after a first leaves the store of the first and returns its record.
C2_CancelIsIdempotent ==
    [][ /\ (req'.op = "cancel" /\ Present(orders, req'.id)
              /\ Record(orders, req'.id).status = "CANCELLED") =>
             /\ resp'.code = 200
             /\ resp'.order = <<Record(orders, req'.id)>>
             /\ orders' = orders
        /\ (req.op = "cancel" /\ resp.code = 200 /\ req'.op = "cancel" /\ req'.id = req.id) =>
             /\ resp' = resp
             /\ orders' = orders
      ]_vars

\* a cancel has returned a CANCELLED record stamped before the clock's last
\* reading: the call wrote nothing
C2_Witness ==
    /\ req.op = "cancel" /\ resp.code = 200
    /\ resp.order[1].status = "CANCELLED"
    /\ resp.order[1].updated_at < now
    /\ Record(orders, req.id) = resp.order[1]

\* every field the client sent is valid for the order: notes may be null,
\* nothing else may
ValidUpdateInput(b) ==
    /\ Sent(b, "customer_name") => ~IsNull(b.vals.customer_name) /\ b.vals.customer_name[1] # ""
    /\ Sent(b, "item") => ~IsNull(b.vals.item) /\ b.vals.item[1] # ""
    /\ Sent(b, "quantity") => ~IsNull(b.vals.quantity) /\ b.vals.quantity[1] > 0
    /\ Sent(b, "status") =>
         ~IsNull(b.vals.status) /\ b.vals.status[1] \in {"PENDING", "FULFILLED", "CANCELLED"}

UpdatesExisting == req'.op = "update" /\ Present(orders, req'.id)

\* C3: an update of an existing order with valid values for a set F of fields
\* answers 200 and stores the sent value for each field in F, the old value
\* for every other field, and the time of the update as updated_at.
C3_UpdateAppliesExactlySentFields ==
    [][ (UpdatesExisting /\ ValidUpdateInput(req'.body)) =>
          /\ resp'.code = 200
          /\ Present(orders', req'.id)
          /\ LET old == Record(orders, req'.id)
                 new == Record(orders', req'.id)
                 b == req'.body
             IN  /\ resp'.order = <<new>>
                 /\ new.customer_name =
                      (IF Sent(b, "customer_name") THEN b.vals.customer_name[1] ELSE old.customer_name)
                 /\ new.item = (IF Sent(b, "item") THEN b.vals.item[1] ELSE old.item)
                 /\ new.quantity = (IF Sent(b, "quantity") THEN b.vals.quantity[1] ELSE old.quantity)
                 /\ new.notes = (IF Sent(b, "notes") THEN b.vals.notes ELSE old.notes)
                 /\ new.status = (IF Sent(b, "status") THEN b.vals.status[1] ELSE old.status)
                 /\ new.id = old.id
                 /\ new.created_at = old.created_at
                 /\ new.updated_at = now' /\ now' >= now
      ]_vars

\* an update that sent quantity alone has stored it; the other fields are
\* those of the order the store started with, and updated_at has advanced
C3_Witness ==
    /\ req.op = "update" /\ resp.code = 200
    /\ req.body.fields_set = {"quantity"} /\ req.body.vals.quantity = <<2>>
    /\ Record(orders, req.id).quantity = 2
    /\ Record(orders, req.id).customer_name = "a"
    /\ Record(orders, req.id).item = "x"
    /\ Record(orders, req.id).notes = <<"n">>
    /\ Record(orders, req.id).status = "FULFILLED"
    /\ Record(orders, req.id).updated_at > Record(orders, req.id).created_at

\* C4: of two valid updates of an existing order, the one that sends notes as
\* null stores no notes and the one that does not send notes stores the notes
\* the order had.
C4_NotesNullClearsAbsentKeeps ==
    [][ (UpdatesExisting /\ ValidUpdateInput(req'.body)) =>
          /\ resp'.code = 200
          /\ Present(orders', req'.id)
          /\ (Sent(req'.body, "notes") /\ IsNull(req'.body.vals.notes)) =>
               IsNull(Record(orders', req'.id).notes)
          /\ ~Sent(req'.body, "notes") =>
               Record(orders', req'.id).notes = Record(orders, req'.id).notes
      ]_vars

\* an update that did not send notes has left notes "n" in place
C4_Witness ==
    /\ req.op = "update" /\ resp.code = 200
    /\ ~Sent(req.body, "notes")
    /\ Sent(req.body, "quantity")
    /\ Record(orders, req.id).notes = <<"n">>

\* C5: an update of an existing order that sends an invalid value (an empty or
\* null customer_name or item, a null or non-positive quantity, a null status)
\* is answered as a client validation error, 422 or 400, and leaves the stored
\* record as it was.
C5_InvalidUpdateIsClientError ==
    [][ (UpdatesExisting /\ ~ValidUpdateInput(req'.body)) =>
          /\ resp'.code \in {400, 422}
          /\ orders' = orders
      ]_vars

\* what update_order does with an invalid value: 422 when the value breaks a
\* constraint of OrderUpdate, 500 when it is a null that only Order rejects;
\* the store is left as it was either way
C5_InvalidUpdateLeavesStore ==
    [][ (UpdatesExisting /\ ~ValidUpdateInput(req'.body)) =>
          /\ resp'.code \in {422, 500}
          /\ orders' = orders
      ]_vars

\* a value of the body breaks a field constraint of OrderUpdate itself
BreaksUpdateField(b) ==
    \/ ~IsNull(b.vals.customer_name) /\ b.vals.customer_name[1] = ""
    \/ ~IsNull(b.vals.item) /\ b.vals.item[1] = ""
    \/ ~IsNull(b.vals.quantity) /\ b.vals.quantity[1] <= 0

AbsentId == req'.op \in {"update", "cancel"} /\ ~Present(orders, req'.id)

\* C7 as stated: update and cancel on an identifier that is not in the store
\* answer 404 and leave the collection as it was.
C7_AbsentIdIsNotFound ==
    [][ AbsentId => resp'.code = 404 /\ orders' = orders ]_vars

\* C7 as amended: on an identifier that is not in the store, cancel, and
\* update with a body that passes the field constraints of OrderUpdate, answer
\* 404; update with a body that breaks one answers 422; the collection is left
\* as it was in both cases.
C7_AbsentIdIsRefused ==
    [][ AbsentId =>
          /\ resp'.code = (IF req'.op = "update" /\ BreaksUpdateField(req'.body) THEN 422 ELSE 404)
          /\ orders' = orders
      ]_vars

\* an update of an absent identifier has answered 404 on a store that holds
\* another order
C7_Witness ==
    /\ req.op = "update" /\ resp.code = 404
    /\ ~Present(orders, req.id)
    /\ Len(orders) = 1

\* C10: every stored order has created_at <= updated_at.
C10_CreatedNotAfterUpdated ==
    \A i \in DOMAIN orders : orders[i].val.created_at <= orders[i].val.updated_at

\* an update or cancel has restamped an order after its creation
C10_Witness ==
    /\ req.op \in {"update", "cancel"} /\ resp.code = 200
    /\ Record(orders, req.id).created_at < Record(orders, req.id).updated_at

\* the order passes every predicate the filter supplies, bounds inclusive
Matches(o, f) ==
    /\ IsNull(f.status) \/ o.status = f.status[1]
    /\ IsNull(f.created_from) \/ f.created_from[1].t <= o.created_at
    /\ IsNull(f.created_to) \/ o.created_at <= f.created_to[1].t

Matching(d, f) == {i \in DOMAIN d : Matches(d[i].val, f)}

\* l holds the stored orders that match f, each once, newest first
IsListing(l, d, f) ==
    /\ \A j \in DOMAIN l : \E i \in Matching(d, f) : d[i].val = l[j]
    /\ \A i \in Matching(d, f) : \E j \in DOMAIN l : l[j] = d[i].val
    /\ \A j \in DOMAIN l, k \in DOMAIN l : j # k => l[j] # l[k]
    /\ \A j \in DOMAIN l, k \in DOMAIN l : j < k => l[j].created_at >= l[k].created_at

NaiveBounds(f) ==
    /\ IsNull(f.created_from) \/ ~f.created_from[1].aware
    /\ IsNull(f.created_to) \/ ~f.created_to[1].aware

\* C8: for every store and every combination of the filters, list answers
\* 200 with exactly the stored orders that match, each once, by created_at
\* descending; an empty result is an empty list, not an error.
C8_ListReturnsMatchingNewestFirst ==
    [][ req'.op = "list" =>
          /\ resp'.code = 200
          /\ IsListing(resp'.list, orders, req'.filter)
      ]_vars

\* what list_orders does: the listing of C8 when no bound carries a UTC
\* offset; with one that does, 500 as soon as an order reaches the comparison
C8_ListOfNaiveBounds ==
    [][ req'.op = "list" =>
          IF NaiveBounds(req'.filter)
          THEN resp'.code = 200 /\ IsListing(resp'.list, orders, req'.filter)
          ELSE resp'.code \in {200, 500} /\ (resp'.code = 200 => resp'.list = <<>>)
      ]_vars

RECURSIVE SumOver(_, _)
SumOver(f, S) ==
    IF S = {} THEN 0
    ELSE LET s == CHOOSE x \in S : TRUE IN f[s] + SumOver(f, S \ {s})

\* r counts the stored orders that match f: their number, and for each
\* status that occurs among them its number of occurrences
IsReport(r, d, f) ==
    /\ r.total = Cardinality(Matching(d, f))
    /\ DOMAIN r.statuses = {d[i].val.status : i \in Matching(d, f)}
    /\ \A s \in DOMAIN r.statuses :
         r.statuses[s] = Cardinality({i \in Matching(d, f) : d[i].val.status = s})
    /\ r.total = SumOver(r.statuses, DOMAIN r.statuses)

\* C9: for every store and filter, report answers 200 with total the number
\* of orders list returns for the filter, statuses mapping exactly the
\* statuses that occur among them to their counts, and total the sum of the
\* counts.
C9_ReportCountsMatchingOrders ==
    [][ req'.op = "report" =>
          /\ resp'.code = 200
          /\ IsReport(resp'.report, orders, req'.filter)
      ]_vars

\* what orders_report does: the report of C9 when no bound carries a UTC
\* offset
C9_ReportOfNaiveBounds ==
    [][ (req'.op = "report" /\ NaiveBounds(req'.filter)) =>
          /\ resp'.code = 200
          /\ IsReport(resp'.report, orders, req'.filter)
      ]_vars

\* ---- an order that starts CANCELLED, under updates of its status and cancels ----

ReviveUpdates ==
    { UpdateBody(F, None, None, Some(q), None, Some(st)) :
        F \in {{"status"}, {"status", "quantity"}}, q \in 1..2, st \in {PENDING, FULFILLED} }

InitRevive ==
    /\ NoRequest
    /\ now = 1
    /\ \E nt \in {None, Some("n")} :
         orders = <<Entry(StoredOrder(1, nt, CANCELLED, 1, 1))>>

NextRevive ==
    \/ \E id \in UUIDs, b \in ReviveUpdates : update_order(id, b)
    \/ \E id \in UUIDs : cancel_order(id)

SpecRevive == InitRevive /\ [][NextRevive]_vars

\* C12: an update that sends PENDING or FULFILLED as status to an order stored
\* as CANCELLED answers 200 and stores the sent status; a cancel of an order
\* that is no longer CANCELLED stores CANCELLED again, stamped with the time of
\* that call.
C12_CancelledIsNotSticky ==
    [][ /\ (req'.op = "update" /\ Present(orders, req'.id)
             /\ Record(orders, req'.id).status = "CANCELLED"
             /\ Sent(req'.body, "status")
             /\ req'.body.vals.status \in {<<"PENDING">>, <<"FULFILLED">>}
             /\ ValidUpdateInput(req'.body)) =>
              /\ resp'.code = 200
              /\ Present(orders', req'.id)
              /\ Record(orders', req'.id).status = req'.body.vals.status[1]
              /\ resp'.order = <<Record(orders', req'.id)>>
        /\ (req'.op = "cancel" /\ Present(orders, req'.id)
             /\ Record(orders, req'.id).status # "CANCELLED") =>
              /\ resp'.code = 200
              /\ Record(orders', req'.id).status = "CANCELLED"
              /\ Record(orders', req'.id).updated_at = now'
              /\ Record(orders', req'.id).updated_at >= Record(orders, req'.id).updated_at
              /\ resp'.order = <<Record(orders', req'.id)>>
      ]_vars

\* the order that started CANCELLED at time 1 is CANCELLED with a later stamp:
\* updates here store PENDING or FULFILLED only, so an update has revived it
\* and a cancel has cancelled it again
C12_Witness ==
    /\ req.op = "cancel" /\ resp.code = 200
    /\ Record(orders, 1).status = "CANCELLED"
    /\ Record(orders, 1).updated_at > 1
    /\ Record(orders, 1).updated_at = now

\* C11: every stored order has quantity > 0, a non-empty customer_name, a
\* non-empty item and a status among PENDING, FULFILLED, CANCELLED.
C11_StoredOrdersAreValid ==
    \A i \in DOMAIN orders :
        /\ orders[i].val.quantity > 0
        /\ orders[i].val.customer_name # ""
        /\ orders[i].val.item # ""
        /\ orders[i].val.status \in {"PENDING", "FULFILLED", "CANCELLED"}

\* an update has been rejected on a store that holds an order an earlier
\* update has rewritten
C11_Witness ==
    /\ req.op = "update" /\ resp.code \in {422, 500}
    /\ Present(orders, req.id)
    /\ Record(orders, req.id).quantity = 2

StoredKeys(d) == {d[i].key : i \in DOMAIN d}

\* C13: an identifier in the store stays in the store; the stored identifiers
\* change only by a create answering 201, which adds one identifier that was
\* not stored; no two entries share a key or an id.
C13_IdsAreNeverRemovedOrReused ==
    [][ /\ StoredKeys(orders) \subseteq StoredKeys(orders')
        /\ Len(orders') >= Len(orders)
        /\ StoredKeys(orders') # StoredKeys(orders) =>
             /\ req'.op = "create" /\ resp'.code = 201
             /\ StoredKeys(orders') = StoredKeys(orders) \cup {resp'.order[1].id}
        /\ (req'.op = "create" /\ resp'.code = 201) =>
             /\ resp'.order[1].id \notin StoredKeys(orders)
             /\ Len(orders') = Len(orders) + 1
        /\ \A i \in DOMAIN orders', j \in DOMAIN orders' :
             i # j => orders'[i].key # orders'[j].key /\ orders'[i].val.id # orders'[j].val.id
      ]_vars

\* two orders are stored under two identifiers and one of them has been
\* rewritten since
C13_Witness ==
    /\ Len(orders) = 2
    /\ orders[1].key # orders[2].key
    /\ req.op \in {"update", "cancel"} /\ resp.code = 200
    /\ Record(orders, req.id).updated_at > Record(orders, req.id).created_at

\* C14: the record under an identifier keeps its id and created_at across
\* every update and cancel, and its id is the key it is stored under.
C14_IdAndCreatedAtAreImmutable ==
    [][ /\ \A k \in StoredKeys(orders) :
             Present(orders', k) =>
               /\ Record(orders', k).id = Record(orders, k).id
               /\ Record(orders', k).created_at = Record(orders, k).created_at
        /\ \A i \in DOMAIN orders' : orders'[i].val.id = orders'[i].key
      ]_vars

\* an update has rewritten the second order later than it was created, and it
\* still carries its key as id
C14_Witness ==
    /\ req.op = "update" /\ resp.code = 200
    /\ Len(orders) = 2 /\ req.id = orders[2].key
    /\ orders[2].val.id = orders[2].key
    /\ orders[2].val.created_at < orders[2].val.updated_at

\* C17: a cancel of an existing order that is not CANCELLED answers 200 with
\* the record it stores: status CANCELLED, updated_at the time of the call,
\* every other field as stored before.
C17_CancelChangesStatusAndStampOnly ==
    [][ (req'.op = "cancel" /\ Present(orders, req'.id)
           /\ Record(orders, req'.id).status # "CANCELLED") =>
          /\ resp'.code = 200
          /\ Present(orders', req'.id)
          /\ LET old == Record(orders, req'.id)
                 new == Record(orders', req'.id)
             IN  /\ resp'.order = <<new>>
                 /\ new.status = "CANCELLED"
                 /\ new.updated_at = now' /\ now' >= now
                 /\ new.id = old.id
                 /\ new.customer_name = old.customer_name
                 /\ new.item = old.item
                 /\ new.quantity = old.quantity
                 /\ new.notes = old.notes
                 /\ new.created_at = old.created_at
      ]_vars

\* a cancel has stamped an order later than its creation and left its notes
C17_Witness ==
    /\ req.op = "cancel" /\ resp.code = 200
    /\ Record(orders, req.id).status = "CANCELLED"
    /\ Record(orders, req.id).notes = <<"n">>
    /\ Record(orders, req.id).updated_at = now
    /\ Record(orders, req.id).updated_at > Record(orders, req.id).created_at

\* C18: list and report leave the store as it was; a create, update or cancel
\* leaves the record of every identifier other than its own as it was.
C18_OtherRecordsAreUntouched ==
    [][ /\ req'.op \in {"list", "report"} => orders' = orders
        /\ req'.op \in {"update", "cancel"} =>
             \A k \in StoredKeys(orders) :
               k # req'.id => Present(orders', k) /\ Record(orders', k) = Record(orders, k)
        /\ req'.op = "create" =>
             \A k \in StoredKeys(orders) :
               Present(orders', k) /\ Record(orders', k) = Record(orders, k)
      ]_vars

\* an update has rewritten the second of two orders and the first is as it
\* was created
C18_Witness ==
    /\ req.op = "update" /\ resp.code = 200
    /\ Len(orders) = 2 /\ req.id = orders[2].key
    /\ orders[2].val.quantity = 2
    /\ orders[1].val.quantity = 1
    /\ orders[1].val.updated_at = orders[1].val.created_at

-----------------------------------------------------------------------------
(* Requests served at the same time.  Each worker thread serves one request *)
(* and runs its handler a step at a time: the read of the store, the        *)
(* building of the new record, the assignment to the store.  A thread keeps *)
(* its locals when it is done.                                              *)

ThreadUpdates ==
    { UpdateBody({"quantity"}, None, None, Some(2), None, None),
      UpdateBody({"status"}, None, None, None, None, Some(FULFILLED)),
      UpdateBody({"customer_name"}, None, None, None, None, None) }

ThreadsStore == <<Entry(StoredOrder(1, None, PENDING, 1, 1))>>

\* the stored identifier and one that is not stored
ThreadIds == {ThreadsStore[i].key : i \in DOMAIN ThreadsStore} \cup {2}

InitThreads ==
    /\ NoRequest
    /\ now = 1
    /\ orders = ThreadsStore

\* the framework validates the body and calls the handler on an idle thread
receive(p, op, id, body) ==
    /\ threads[p].pc = "idle"
    /\ threads' = [threads EXCEPT ![p] =
         IF op = "update" /\ ~OrderUpdateValid(body)
         THEN [@ EXCEPT !.pc = "done", !.op = op, !.id = id, !.body = body, !.code = 422]
         ELSE [@ EXCEPT !.pc = "read", !.op = op, !.id = id, !.body = body]]
    /\ UNCHANGED <<orders, now, req, resp>>

\* existing = orders.get(order_id); if not existing: raise 404
update_order_read(p) ==
    /\ threads[p].pc = "read" /\ threads[p].op = "update"
    /\ LET existing == Get(orders, threads[p].id)
       IN  threads' = [threads EXCEPT ![p] =
             IF IsNone(existing)
             THEN [@ EXCEPT !.pc = "done", !.code = 404]
             ELSE [@ EXCEPT !.pc = "build", !.existing = existing]]
    /\ UNCHANGED <<orders, now, req, resp>>

\* data = existing.model_dump(); the merge; updated_at; Order(**data)
update_order_build(p) ==
    /\ threads[p].pc = "build" /\ threads[p].op = "update"
    /\ \E t \in utcnow :
         LET data == Merge(Merge(model_dump(Val(threads[p].existing)),
                                 body_dump_set(threads[p].body)),
                           [updated_at |-> Some(t)])
         IN  /\ now' = t
             /\ threads' = [threads EXCEPT ![p] =
                  IF OrderValid(data)
                  THEN [@ EXCEPT !.pc = "write", !.updated_order = Some(Order(data))]
                  ELSE [@ EXCEPT !.pc = "done", !.code = 500]]
    /\ UNCHANGED <<orders, req, resp>>

\* an update that merges onto the record stored at the time of its write
update_order_store_rereading(p) ==
    /\ threads[p].pc = "write" /\ threads[p].op = "update"
    /\ LET data == Merge(Merge(model_dump(Record(orders, threads[p].id)),
                               body_dump_set(threads[p].body)),
                         [updated_at |-> Some(Val(threads[p].updated_order).updated_at)])
       IN  /\ orders' = Put(orders, threads[p].id, Order(data))
           /\ threads' = [threads EXCEPT ![p] =
                [@ EXCEPT !.pc = "done", !.code = 200, !.updated_order = Some(Order(data))]]
    /\ UNCHANGED <<now, req, resp>>

\* orders[order_id] = updated_order; return updated_order
update_order_store(p) ==
    /\ threads[p].pc = "write" /\ threads[p].op = "update"
    /\ orders' = Put(orders, threads[p].id, Val(threads[p].updated_order))
    /\ threads' = [threads EXCEPT ![p] = [@ EXCEPT !.pc = "done", !.code = 200]]
    /\ UNCHANGED <<now, req, resp>>

\* existing = orders.get(order_id); 404 if absent; returned as it is if CANCELLED
cancel_order_read(p) ==
    /\ threads[p].pc = "read" /\ threads[p].op = "cancel"
    /\ LET existing == Get(orders, threads[p].id)
       IN  threads' = [threads EXCEPT ![p] =
             IF IsNone(existing)
             THEN [@ EXCEPT !.pc = "done", !.code = 404]
             ELSE IF Val(existing).status = CANCELLED
                  THEN [@ EXCEPT !.pc = "done", !.code = 200, !.existing = existing]
                  ELSE [@ EXCEPT !.pc = "build", !.existing = existing]]
    /\ UNCHANGED <<orders, now, req, resp>>

\* updated_order = existing.model_copy(update={...})
cancel_order_build(p) ==
    /\ threads[p].pc = "build" /\ threads[p].op = "cancel"
    /\ \E t \in utcnow :
         /\ now' = t
         /\ threads' = [threads EXCEPT ![p] =
              [@ EXCEPT !.pc = "write",
                        !.updated_order =
                           Some(model_copy(Val(threads[p].existing),
                                           [status |-> CANCELLED, updated_at |-> t]))]]
    /\ UNCHANGED <<orders, req, resp>>

\* orders[order_id] = updated_order; return updated_order
cancel_order_store(p) ==
    /\ threads[p].pc = "write" /\ threads[p].op = "cancel"
    /\ orders' = Put(orders, threads[p].id, Val(threads[p].updated_order))
    /\ threads' = [threads EXCEPT ![p] = [@ EXCEPT !.pc = "done", !.code = 200]]
    /\ UNCHANGED <<now, req, resp>>

\* result = list(orders.values()): the one read of the store that list and
\* report make; the filters, the sort and the count work on this list
filter_orders_read(p) ==
    /\ threads[p].pc = "read" /\ threads[p].op \in {"list", "report"}
    /\ threads' = [threads EXCEPT ![p] =
         [@ EXCEPT !.pc = "done", !.code = 200, !.result = Values(orders)]]
    /\ UNCHANGED <<orders, now, req, resp>>

NextThreads ==
    \E p \in Threads :
        \/ \E id \in ThreadIds, b \in ThreadUpdates : receive(p, "update", id, b)
        \/ \E id \in ThreadIds : receive(p, "cancel", id, NoBody)
        \/ \E op \in {"list", "report"} : receive(p, op, 0, NoBody)
        \/ update_order_read(p)
        \/ update_order_build(p)
        \/ update_order_store(p)
        \/ cancel_order_read(p)
        \/ cancel_order_build(p)
        \/ cancel_order_store(p)
        \/ filter_orders_read(p)

SpecThreads == InitThreads /\ [][NextThreads]_vars

\* r is a record one handler built and stored as a whole, or a record the
\* store started with
WrittenWhole(r) ==
    \/ \E i \in DOMAIN ThreadsStore : r = ThreadsStore[i].val
    \/ \E p \in Threads :
         /\ threads[p].pc = "done" /\ threads[p].code = 200
         /\ threads[p].updated_order = <<r>>

\* C15: under every interleaving of the handlers' steps, each record a thread
\* has read from the store (the existing record of an update or a cancel, the
\* records of a list or a report) is a record that one create, update or
\* cancel built and stored as a whole.
C15_ReadsSeeWholeRecords ==
    \A q \in Threads :
        /\ ~IsNone(threads[q].existing) => WrittenWhole(threads[q].existing[1])
        /\ \A i \in DOMAIN threads[q].result : WrittenWhole(threads[q].result[i])

\* an update has read the record that a cancel has read and not yet
\* replaced: both handlers are between their read and their write
C15_Witness ==
    \E p \in Threads, q \in Threads :
        /\ threads[p].op = "cancel" /\ threads[p].pc = "write"
        /\ threads[q].op = "update" /\ threads[q].pc = "build"
        /\ threads[q].existing = threads[p].existing
        /\ threads[q].existing = <<Record(orders, 1)>>

UpdateStores(p) ==
    /\ threads[p].op = "update"
    /\ threads[p].pc = "write"
    /\ threads'[p].pc = "done"

SentValue(b, f) == IF f = "notes" THEN b.vals.notes ELSE b.vals[f][1]

\* C16 as stated: after the write of an update, a field the request did not
\* send has the value that was stored immediately before that write.
C16_AbsentFieldsKeepStoredValue ==
    [][ \A p \in Threads :
          UpdateStores(p) =>
            \A f \in UpdateFields \ threads[p].body.fields_set :
              Record(orders', threads[p].id)[f] = Record(orders, threads[p].id)[f]
      ]_vars

\* C16: after the write of an update, a field the request sent has the sent
\* value and a field it did not send has the value of the record the update
\* read at its start, whatever has been stored under the identifier since.
C16_AbsentFieldsKeepReadValue ==
    [][ \A p \in Threads :
          UpdateStores(p) =>
            /\ Present(orders', threads[p].id)
            /\ \A f \in UpdateFields :
                 Record(orders', threads[p].id)[f] =
                   (IF Sent(threads[p].body, f)
                    THEN SentValue(threads[p].body, f)
                    ELSE threads[p].existing[1][f])
      ]_vars

\* both threads read the PENDING order; the cancel stored CANCELLED, then the
\* update of quantity stored its record, whose status is the PENDING it read
C16_Witness ==
    \E p \in Threads, q \in Threads :
        /\ threads[p].op = "update" /\ threads[p].pc = "done" /\ threads[p].code = 200
        /\ threads[p].body.fields_set = {"quantity"}
        /\ threads[q].op = "cancel" /\ threads[q].pc = "done" /\ threads[q].code = 200
        /\ threads[q].existing = threads[p].existing
        /\ threads[q].updated_order # None
        /\ threads[q].updated_order[1].status = "CANCELLED"
        /\ Record(orders, 1) = threads[p].updated_order[1]
        /\ Record(orders, 1).status = "PENDING"
        /\ Record(orders, 1).quantity = 2

====
